---------------------------- MODULE Spec2Model ----------------------------
(***************************************************************************)
(* Model of src/noteDisplay.js: NoteDisplay (render + drag-and-drop),      *)
(* LinearScaler (affine unit conversion) and NoteBlock (id generator,      *)
(* drag-start payload).                                                    *)
(***************************************************************************)
EXTENDS Integers, Sequences, FiniteSets, TLC

(***************************************************************************)
(* JavaScript numbers.  A number is a pair <<n, d>>: the rational n/d in   *)
(* lowest terms with d > 0, or one of the three special values             *)
(* <<1,0>> = Infinity, <<-1,0>> = -Infinity, <<0,0>> = NaN.  Every finite  *)
(* value the model draws is a small multiple of 1/4, on which IEEE double  *)
(* arithmetic is exact, so the rational result is the double result.       *)
(***************************************************************************)
NaN == <<0, 0>>
PosInf == <<1, 0>>
NegInf == <<-1, 0>>

IAbs(a) == IF a < 0 THEN -a ELSE a

RECURSIVE Gcd(_, _)
Gcd(a, b) == IF b = 0 THEN a ELSE Gcd(b, a % b)

Sgn(a) == IF a > 0 THEN 1 ELSE IF a < 0 THEN -1 ELSE 0

\* the number n/d (d # 0) in lowest terms
Norm(n, d) ==
    LET g == Gcd(IAbs(n), IAbs(d))
        s == IF d < 0 THEN -1 ELSE 1
    IN  <<(s * n) \div g, (s * d) \div g>>

Num(k) == <<k, 1>>
IsFinite(x) == x[2] # 0
IsNaN(x) == x = NaN

NumAdd(x, y) ==
    IF IsNaN(x) \/ IsNaN(y) THEN NaN
    ELSE IF ~IsFinite(x) /\ ~IsFinite(y) THEN (IF x = y THEN x ELSE NaN)
    ELSE IF ~IsFinite(x) THEN x
    ELSE IF ~IsFinite(y) THEN y
    ELSE Norm(x[1] * y[2] + y[1] * x[2], x[2] * y[2])

NumNeg(x) == <<-x[1], x[2]>>

NumSub(x, y) == NumAdd(x, NumNeg(y))

NumMul(x, y) ==
    IF IsNaN(x) \/ IsNaN(y) THEN NaN
    ELSE IF ~IsFinite(x) \/ ~IsFinite(y)
         THEN (IF x[1] = 0 \/ y[1] = 0 THEN NaN
               ELSE <<Sgn(x[1]) * Sgn(y[1]), 0>>)
    ELSE Norm(x[1] * y[1], x[2] * y[2])

NumDiv(x, y) ==
    IF IsNaN(x) \/ IsNaN(y) THEN NaN
    ELSE IF ~IsFinite(x) /\ ~IsFinite(y) THEN NaN
    ELSE IF ~IsFinite(x) THEN <<x[1] * (IF y[1] < 0 THEN -1 ELSE 1), 0>>
    ELSE IF ~IsFinite(y) THEN Num(0)
    ELSE IF y[1] = 0 THEN (IF x[1] = 0 THEN NaN ELSE <<Sgn(x[1]), 0>>)
    ELSE Norm(x[1] * y[2], x[2] * y[1])

\* Math.abs
NumAbs(x) == <<IAbs(x[1]), x[2]>>

\* x < y (false when either side is NaN)
NumLess(x, y) ==
    IF IsNaN(x) \/ IsNaN(y) THEN FALSE
    ELSE IF ~IsFinite(x) \/ ~IsFinite(y)
         THEN (IF ~IsFinite(x) /\ ~IsFinite(y) THEN x[1] < y[1]
               ELSE IF ~IsFinite(x) THEN x[1] < 0 ELSE y[1] > 0)
    ELSE x[1] * y[2] < y[1] * x[2]

NumMin(x, y) == IF NumLess(y, x) THEN y ELSE x

(***************************************************************************)
(* Strings of the drag payload: sequences of character codes, 0..9 for the *)
(* decimal digits and NonDigit for any other character.                    *)
(***************************************************************************)
NonDigit == 10

RECURSIVE StringOf(_)
\* String(k) for an integer k >= 0: its decimal digits
StringOf(k) == IF k < 10 THEN <<k>> ELSE Append(StringOf(k \div 10), k % 10)

RECURSIVE DigitsValue(_)
DigitsValue(s) ==
    IF Len(s) = 0 THEN 0
    ELSE 10 * DigitsValue(SubSeq(s, 1, Len(s) - 1)) + s[Len(s)]

\* Number(s): the empty string is 0, a digit string its value, else NaN
ToNumber(s) ==
    IF \A k \in 1..Len(s) : s[k] \in 0..9 THEN Num(DigitsValue(s)) ELSE NaN

(***************************************************************************)
(* LinearScaler.  A configuration is a function from unit names to         *)
(* [zero, scaling] records; an input is a function from unit names to      *)
(* numbers.  The configuration is a plain object, so a property read finds *)
(* the members of Object.prototype as well as the configured units.        *)
(***************************************************************************)
ObjectPrototypeKeys == {"constructor", "toString"}

\* this.units[unit] != undefined
UnitsHas(units, unit) ==
    unit \in DOMAIN units \/ unit \in ObjectPrototypeKeys

\* this.units[unit].zero as a number (undefined coerces to NaN)
UnitZero(units, unit) ==
    IF unit \in DOMAIN units THEN units[unit].zero ELSE NaN

\* this.units[unit].scaling as a number (undefined coerces to NaN)
UnitScaling(units, unit) ==
    IF unit \in DOMAIN units THEN units[unit].scaling ELSE NaN

OutputValuesFor(units, inputValues) ==
    [unit \in {u \in DOMAIN inputValues : UnitsHas(units, u)} |->
        NumAdd(UnitZero(units, unit),
               NumMul(UnitScaling(units, unit), inputValues[unit]))]


\* an inverse that divides before it subtracts
InputValuesForDivideFirst(units, outputValues) ==
    [unit \in {u \in DOMAIN outputValues : UnitsHas(units, u)} |->
        NumSub(NumDiv(outputValues[unit], UnitScaling(units, unit)),
               UnitZero(units, unit))]

InputValuesFor(units, outputValues) ==
    [unit \in {u \in DOMAIN outputValues : UnitsHas(units, u)} |->
        NumDiv(NumSub(outputValues[unit], UnitZero(units, unit)),
               UnitScaling(units, unit))]

(***************************************************************************)
(* Bounds and drawn inputs                                                 *)
(***************************************************************************)
MaxBlocks == 3        \* NoteBlocks constructed in one behaviour
MaxNotesPerDraw == 3  \* notes returned by one getNotes call

Displays == {1, 2}
NoDisplay == 0

BeatZero == 40
BeatScaling == 40
PitchZero == 400
PitchScaling == -20
DefaultXSize == 40
DefaultYSize == 20

\* the <<xSize, ySize>> arguments each display is constructed with: the
\* defaults for display 1, other values for display 2
SizeArgs == (1 :> <<DefaultXSize, DefaultYSize>>) @@ (2 :> <<80, 10>>)

\* the notes of the sequence collaborator, by reference
NoteRefs == {"n1", "n2", "n3"}
Undefined == "undefined"
Heap ==
    [n \in NoteRefs |->
        CASE n = "n1" -> [start |-> Num(0), length |-> Num(2), number |-> Num(60)]
          [] n = "n2" -> [start |-> <<1, 2>>, length |-> Num(1), number |-> Num(20)]
          [] n = "n3" -> [start |-> Num(4), length |-> <<1, 4>>, number |-> Num(0)]]

\* event.clientX of a drop
Pixels == {200, 50}

NoteIdType == "application/note-id"
EmptyMap == [k \in {} |-> 0]

\* payloads of drags that do not start on a NoteBlock
ForeignPayloads ==
    { ("Files" :> <<>>),
      (NoteIdType :> <<7>>),
      (NoteIdType :> <<NonDigit>>) }

NoDrag ==
    [active |-> FALSE, data |-> EmptyMap, target |-> NoDisplay,
     prevented |-> FALSE, dropOK |-> FALSE, src |-> -1, srcDisplay |-> NoDisplay]

VARIABLES
    gen,        \* NoteBlock.idGenerator: [started, i]
    constructed,\* ids returned to the NoteBlock constructor, in order
    createdFor, \* per constructed block (by position): the note it was drawn for
    xSize,      \* this.xSize of each display
    ySize,      \* this.ySize of each display
    converter,  \* this.converter.units of each display
    blocks,     \* this.blocks of each display: id -> NoteBlock
    notes,      \* this.notes of each display: id -> note
    surface,    \* children appended to each display's surface, in order
    drag,       \* the platform's drag operation and its dataTransfer
    drops,      \* the drop event the latest handler handled, if it was a drop
    moveCalls,  \* sequence.moveNote calls made by the latest handler
    scUnits,    \* a LinearScaler under test: its configuration
    scIn,       \* ... the mapping passed to it
    scOut,      \* ... outputValuesFor(scIn)
    scBack,     \* ... inputValuesFor(outputValuesFor(scIn))
    scInv,      \* ... inputValuesFor(scIn)
    scDone      \* ... which of the three have been computed

dispVars ==
    <<gen, constructed, createdFor, xSize, ySize, converter, blocks, notes,
      surface, drag, drops, moveCalls>>
scVars == <<scUnits, scIn, scOut, scBack, scInv, scDone>>
vars ==
    <<gen, constructed, createdFor, xSize, ySize, converter, blocks, notes,
      surface, drag, drops, moveCalls,
      scUnits, scIn, scOut, scBack, scInv, scDone>>

(***************************************************************************)
(* NoteBlock                                                               *)
(***************************************************************************)

\* a generator that yields i without ever incrementing it
GenNextStuck(g) ==
    [value |-> g.i, gen |-> [started |-> TRUE, i |-> g.i]]

\* NoteBlock.idGenerator.next(): the first call runs to the first yield,
\* every later call resumes after the yield, increments i and yields again
GenNext(g) ==
    IF ~g.started
    THEN [value |-> 0, gen |-> [started |-> TRUE, i |-> 0]]
    ELSE [value |-> g.i + 1, gen |-> [started |-> TRUE, i |-> g.i + 1]]

NextId(g) == GenNext(g)

\* new NoteBlock({top, left, height, width, unit})
NewNoteBlock(g, top, left, height, width, unit) ==
    LET r == NextId(g)
    IN  [block |-> [id |-> r.value, top |-> top, left |-> left,
                    height |-> height, width |-> width, unit |-> unit,
                    draggable |-> TRUE],
         gen |-> r.gen]


\* a drag listener that writes the id after the block's own
DragListenerOffByOne(block) == (NoteIdType :> StringOf(block.id + 1))

\* NoteBlock.dragListener: the payload written by a drag-start on the block
DragListener(block) == (NoteIdType :> StringOf(block.id))

(***************************************************************************)
(* NoteDisplay                                                             *)
(***************************************************************************)

\* a constructor that wires xSize and ySize into the converter
NewConverterWired(xs, ys) ==
    ("beat" :> [zero |-> Num(BeatZero), scaling |-> Num(xs)]) @@
    ("pitch" :> [zero |-> Num(PitchZero), scaling |-> Num(-ys)])

\* the converter the constructor builds; xs and ys are its xSize and ySize
NewConverter(xs, ys) ==
    ("beat" :> [zero |-> Num(BeatZero), scaling |-> Num(BeatScaling)]) @@
    ("pitch" :> [zero |-> Num(PitchZero), scaling |-> Num(PitchScaling)])

MapSet(m, k, v) == [x \in DOMAIN m \cup {k} |-> IF x = k THEN v ELSE m[x]]


\* Map.get with a number as key
MapGet(m, num) ==
    IF num[2] = 1 /\ num[1] \in DOMAIN m THEN m[num[1]] ELSE Undefined


\* a loop body that files the note under the block's position on the surface
DrawOneKeyedByPosition(st, note) ==
    LET startPosition ==
            OutputValuesFor(st.converter,
                ("beat" :> Heap[note].start) @@ ("pitch" :> Heap[note].number))
        endPosition ==
            OutputValuesFor(st.converter,
                ("beat" :> NumAdd(Heap[note].start, Heap[note].length)) @@
                ("pitch" :> NumAdd(Heap[note].number, Num(1))))
        made ==
            NewNoteBlock(st.gen,
                startPosition["pitch"],
                startPosition["beat"],
                NumAbs(NumSub(endPosition["pitch"], startPosition["pitch"])),
                NumAbs(NumSub(endPosition["beat"], startPosition["beat"])),
                "px")
        block == made.block
    IN  [st EXCEPT !.gen = made.gen,
                   !.blocks = MapSet(st.blocks, block.id, block),
                   !.notes = MapSet(st.notes, Len(st.surface), note),
                   !.surface = Append(st.surface, block.id),
                   !.made = Append(st.made, block.id)]

\* one iteration of the loop of drawNotes, on the display state st
DrawOne(st, note) ==
    LET startPosition ==
            OutputValuesFor(st.converter,
                ("beat" :> Heap[note].start) @@ ("pitch" :> Heap[note].number))
        endPosition ==
            OutputValuesFor(st.converter,
                ("beat" :> NumAdd(Heap[note].start, Heap[note].length)) @@
                ("pitch" :> NumAdd(Heap[note].number, Num(1))))
        made ==
            NewNoteBlock(st.gen,
                startPosition["pitch"],
                startPosition["beat"],
                NumAbs(NumSub(endPosition["pitch"], startPosition["pitch"])),
                NumAbs(NumSub(endPosition["beat"], startPosition["beat"])),
                "px")
        block == made.block
    IN  [st EXCEPT !.gen = made.gen,
                   !.blocks = MapSet(st.blocks, block.id, block),
                   !.notes = MapSet(st.notes, block.id, note),
                   !.surface = Append(st.surface, block.id),
                   !.made = Append(st.made, block.id)]

RECURSIVE DrawLoop(_, _)
DrawLoop(st, ns) ==
    IF Len(ns) = 0 THEN st ELSE DrawLoop(DrawOne(st, Head(ns)), Tail(ns))

\* sequence.getNotes({startBeat: 0, endBeat: 8}): any notes of the sequence
GetNotes ==
    UNION {[1..k -> NoteRefs] : k \in 0..MaxNotesPerDraw}


\* a drawNotes that clears the mappings and the surface before rendering
DrawNotesResultClearing(d, ns) ==
    DrawLoop([gen |-> gen, converter |-> converter[d], blocks |-> EmptyMap,
              notes |-> EmptyMap, surface |-> <<>>, made |-> <<>>], ns)

DrawNotesResult(d, ns) ==
    DrawLoop([gen |-> gen, converter |-> converter[d], blocks |-> blocks[d],
              notes |-> notes[d], surface |-> surface[d], made |-> <<>>], ns)


\* a drag-over listener that accepts every drag
DragOverListenerAlways(data) == TRUE

\* NoteDisplay.dragOverListener: TRUE iff it calls event.preventDefault()
DragOverListener(data) == NoteIdType \in DOMAIN data

\* dataTransfer.getData(type): the empty string when the type is absent
GetData(data, type) == IF type \in DOMAIN data THEN data[type] ELSE <<>>

\* NoteDisplay.dropListener: the argument of its sequence.moveNote call
DropListener(d, data, clientX) ==
    LET blockId == ToNumber(GetData(data, NoteIdType))
    IN  [note |-> MapGet(notes[d], blockId),
         newStart |-> InputValuesFor(converter[d],
                          ("beat" :> Num(clientX)))["beat"]]

\* sequence.moveNote({note, newStart}): what the collaborator may throw
MoveNote(call) ==
    IF call.note = Undefined THEN {"none", "TypeError"} ELSE {"none"}

(***************************************************************************)
(* The display state machine                                               *)
(***************************************************************************)
ScIdle ==
    /\ scUnits = NewConverter(DefaultXSize, DefaultYSize)
    /\ scIn = EmptyMap
    /\ scOut = EmptyMap
    /\ scBack = EmptyMap
    /\ scInv = EmptyMap
    /\ scDone = {}

Init ==
    /\ gen = [started |-> FALSE, i |-> 0]
    /\ constructed = <<>>
    /\ createdFor = <<>>
    /\ xSize = [d \in Displays |-> SizeArgs[d][1]]
    /\ ySize = [d \in Displays |-> SizeArgs[d][2]]
    /\ converter = [d \in Displays |-> NewConverter(xSize[d], ySize[d])]
    /\ blocks = [d \in Displays |-> EmptyMap]
    /\ notes = [d \in Displays |-> EmptyMap]
    /\ surface = [d \in Displays |-> <<>>]
    /\ drag = NoDrag
    /\ drops = <<>>
    /\ moveCalls = <<>>
    /\ ScIdle

DrawNotes(d) ==
    \E ns \in GetNotes :
        /\ Len(constructed) + Len(ns) <= MaxBlocks
        /\ \E r \in {DrawNotesResult(d, ns)} :
               /\ gen' = r.gen
               /\ blocks' = [blocks EXCEPT ![d] = r.blocks]
               /\ notes' = [notes EXCEPT ![d] = r.notes]
               /\ surface' = [surface EXCEPT ![d] = r.surface]
               /\ constructed' = constructed \o r.made
        /\ createdFor' =
               createdFor \o [k \in 1..Len(ns) |-> [display |-> d, note |-> ns[k]]]
        /\ drops' = <<>>
        /\ moveCalls' = <<>>
        /\ UNCHANGED <<xSize, ySize, converter, drag>>
        /\ UNCHANGED scVars

\* the user starts dragging the element of block b on the surface of d
DragStart(d, b) ==
    /\ ~drag.active
    /\ b \in DOMAIN blocks[d]
    /\ \E k \in 1..Len(surface[d]) : surface[d][k] = b
    /\ drag' = [NoDrag EXCEPT !.active = TRUE,
                              !.data = DragListener(blocks[d][b]),
                              !.src = b,
                              !.srcDisplay = d]
    /\ drops' = <<>>
    /\ moveCalls' = <<>>
    /\ UNCHANGED <<gen, constructed, createdFor, xSize, ySize, converter,
                   blocks, notes, surface>>
    /\ UNCHANGED scVars

\* a drag that starts outside every NoteBlock, carrying payload p
ForeignDragStart(p) ==
    /\ ~drag.active
    /\ drag' = [NoDrag EXCEPT !.active = TRUE, !.data = p]
    /\ drops' = <<>>
    /\ moveCalls' = <<>>
    /\ UNCHANGED <<gen, constructed, createdFor, xSize, ySize, converter,
                   blocks, notes, surface>>
    /\ UNCHANGED scVars

\* 'dragenter' on the surface of d
DragEnter(d) ==
    /\ drag.active
    /\ drag' = [drag EXCEPT !.target = d,
                            !.prevented = DragOverListener(drag.data),
                            !.dropOK = FALSE]
    /\ drops' = <<>>
    /\ moveCalls' = <<>>
    /\ UNCHANGED <<gen, constructed, createdFor, xSize, ySize, converter,
                   blocks, notes, surface>>
    /\ UNCHANGED scVars

\* 'dragover' on the surface of d; the platform allows a drop there iff
\* the listener prevented the default
DragOver(d) ==
    /\ drag.active
    /\ drag.target = d
    /\ drag' = [drag EXCEPT !.prevented = DragOverListener(drag.data),
                            !.dropOK = DragOverListener(drag.data)]
    /\ drops' = <<>>
    /\ moveCalls' = <<>>
    /\ UNCHANGED <<gen, constructed, createdFor, xSize, ySize, converter,
                   blocks, notes, surface>>
    /\ UNCHANGED scVars

\* the drag ends without a drop on a surface
DragEnd ==
    /\ drag.active
    /\ drag' = NoDrag
    /\ drops' = <<>>
    /\ moveCalls' = <<>>
    /\ UNCHANGED <<gen, constructed, createdFor, xSize, ySize, converter,
                   blocks, notes, surface>>
    /\ UNCHANGED scVars

\* 'drop' on the surface of d at clientX
Drop(d, clientX) ==
    /\ drag.active
    /\ drag.target = d
    /\ drag.dropOK
    /\ LET call == DropListener(d, drag.data, clientX)
       IN  /\ moveCalls' = <<call>>
           /\ \E t \in MoveNote(call) :
                  drops' = <<[display |-> d, clientX |-> clientX,
                              data |-> drag.data, src |-> drag.src,
                              srcDisplay |-> drag.srcDisplay, thrown |-> t]>>
    /\ drag' = NoDrag
    /\ UNCHANGED <<gen, constructed, createdFor, xSize, ySize, converter,
                   blocks, notes, surface>>
    /\ UNCHANGED scVars

Next ==
    \/ \E d \in Displays : DrawNotes(d)
    \/ \E d \in Displays : \E b \in 0..MaxBlocks : DragStart(d, b)
    \/ \E p \in ForeignPayloads : ForeignDragStart(p)
    \/ \E d \in Displays : DragEnter(d)
    \/ \E d \in Displays : DragOver(d)
    \/ DragEnd
    \/ \E d \in Displays : \E x \in Pixels : Drop(d, x)

Spec == Init /\ [][Next]_vars

(***************************************************************************)
(* LinearScaler on its own: a configuration and an input mapping are       *)
(* drawn, then the two conversions are applied.                            *)
(***************************************************************************)
UnitNames == {"beat", "pitch", "unknownUnit", "constructor"}
ScValues == {Num(0), Num(200), <<-3, 4>>}
MaxInputKeys == 2

ScConfigs ==
    { NewConverter(DefaultXSize, DefaultYSize),
      ("beat" :> [zero |-> Num(7), scaling |-> Num(0)]) @@
      ("pitch" :> [zero |-> <<1, 2>>, scaling |-> <<-1, 4>>]),
      ("unknownUnit" :> [zero |-> Num(0), scaling |-> Num(1)]) }

ScInputs ==
    UNION {[S -> ScValues] :
              S \in {T \in SUBSET UnitNames : Cardinality(T) <= MaxInputKeys}}

ScInit ==
    /\ gen = [started |-> FALSE, i |-> 0]
    /\ constructed = <<>>
    /\ createdFor = <<>>
    /\ xSize = [d \in Displays |-> DefaultXSize]
    /\ ySize = [d \in Displays |-> DefaultYSize]
    /\ converter = [d \in Displays |-> NewConverter(xSize[d], ySize[d])]
    /\ blocks = [d \in Displays |-> EmptyMap]
    /\ notes = [d \in Displays |-> EmptyMap]
    /\ surface = [d \in Displays |-> <<>>]
    /\ drag = NoDrag
    /\ drops = <<>>
    /\ moveCalls = <<>>
    /\ scUnits \in ScConfigs
    /\ scIn \in ScInputs
    /\ scOut = EmptyMap
    /\ scBack = EmptyMap
    /\ scInv = EmptyMap
    /\ scDone = {}

\* scaler.outputValuesFor(scIn)
ScOutput ==
    /\ "out" \notin scDone
    /\ scOut' = OutputValuesFor(scUnits, scIn)
    /\ scDone' = scDone \cup {"out"}
    /\ UNCHANGED <<scUnits, scIn, scBack, scInv>>
    /\ UNCHANGED dispVars

\* scaler.inputValuesFor(scaler.outputValuesFor(scIn))
ScRoundTrip ==
    /\ "out" \in scDone
    /\ "back" \notin scDone
    /\ scBack' = InputValuesFor(scUnits, scOut)
    /\ scDone' = scDone \cup {"back"}
    /\ UNCHANGED <<scUnits, scIn, scOut, scInv>>
    /\ UNCHANGED dispVars

\* scaler.inputValuesFor(scIn)
ScInput ==
    /\ "inv" \notin scDone
    /\ scInv' = InputValuesFor(scUnits, scIn)
    /\ scDone' = scDone \cup {"inv"}
    /\ UNCHANGED <<scUnits, scIn, scOut, scBack>>
    /\ UNCHANGED dispVars

ScNext == ScOutput \/ ScRoundTrip \/ ScInput

ScalerSpec == ScInit /\ [][ScNext]_vars

(***************************************************************************)
(* Properties                                                              *)
(***************************************************************************)
\* positions (in construction order) of the blocks drawn on display d
DrawnOn(d) == {k \in 1..Len(createdFor) : createdFor[k].display = d}

\* the note the block with id b was constructed for
NoteOfBlock(b) ==
    createdFor[CHOOSE k \in 1..Len(constructed) : constructed[k] = b].note

\* C1: a drag-start on the block created for note n followed by a drop on
\* the same display at pixel X makes exactly one moveNote call, with note n
\* and newStart = (X - 40) / 40.
C1_DropMovesDraggedNote ==
    (drops # <<>> /\ drops[1].src >= 0
        /\ drops[1].srcDisplay = drops[1].display)
    => moveCalls = <<[note |-> NoteOfBlock(drops[1].src),
                      newStart |-> Norm(drops[1].clientX - 40, 40)]>>

\* three distinct notes rendered on one display, the 2nd block dropped on
\* it at X = 200: one call with that note and newStart = 4
C1_Witness ==
    /\ Len(constructed) = 3
    /\ \A k \in 1..3 : createdFor[k].display = 1
    /\ Cardinality({createdFor[k].note : k \in 1..3}) = 3
    /\ drops # <<>>
    /\ drops[1].src = constructed[2]
    /\ drops[1].display = 1
    /\ drops[1].clientX = 200
    /\ moveCalls = <<[note |-> createdFor[2].note, newStart |-> <<4, 1>>]>>

\* C2: a drop whose payload id is not a key of the display's notes mapping
\* raises UnknownBlockId and does not call moveNote with an undefined note.
C2_UnknownIdRaises ==
    (drops # <<>>
        /\ LET id == ToNumber(GetData(drops[1].data, NoteIdType))
           IN  ~(id[2] = 1 /\ id[1] \in DOMAIN notes[drops[1].display]))
    => /\ drops[1].thrown = "UnknownBlockId"
       /\ \A k \in 1..Len(moveCalls) : moveCalls[k].note # Undefined

\* C3: the k-th NoteBlock constructed (k = 0, 1, ...) has id k, whatever
\* the drawNotes calls and displays that constructed the blocks.
C3_IdsCountFromZero ==
    \A k \in 1..Len(constructed) : constructed[k] = k - 1

C3_Witness ==
    /\ Len(constructed) >= 3
    /\ DrawnOn(1) # {}
    /\ DrawnOn(2) # {}

\* C4: every drawn block has left = 40 + 40*start, width = 40*length,
\* height = 20 and top = the lesser of the pitch outputs of its two corners.
C4_Geometry ==
    \A d \in Displays : \A k \in DOMAIN blocks[d] :
        LET n == Heap[notes[d][k]]
            topStart == NumSub(Num(400), NumMul(Num(20), n.number))
            topEnd == NumSub(Num(400),
                             NumMul(Num(20), NumAdd(n.number, Num(1))))
        IN  /\ blocks[d][k].left = NumAdd(Num(40), NumMul(Num(40), n.start))
            /\ blocks[d][k].width = NumMul(Num(40), n.length)
            /\ blocks[d][k].height = Num(20)
            /\ blocks[d][k].top = NumMin(topStart, topEnd)

C6_KeysAreConfiguredUnits ==
    /\ "out" \in scDone => DOMAIN scOut = DOMAIN scIn \cap DOMAIN scUnits
    /\ "inv" \in scDone => DOMAIN scInv = DOMAIN scIn \cap DOMAIN scUnits

\* C7: the drag-enter/drag-over listener prevents the default iff the
\* payload has the type application/note-id, and every moveNote call comes
\* from a drop of a drag that carries that type.
C7_OnlyNoteDragsDrop ==
    /\ (drag.active /\ drag.target # NoDisplay)
       => (drag.prevented <=> NoteIdType \in DOMAIN drag.data)
    /\ moveCalls # <<>>
       => (drops # <<>> /\ NoteIdType \in DOMAIN drops[1].data)

\* a drag without the type has been over a surface with blocks
C7_Witness ==
    /\ drag.active
    /\ "Files" \in DOMAIN drag.data
    /\ drag.target # NoDisplay
    /\ DOMAIN notes[drag.target] # {}
    /\ ~drag.prevented

\* the entries display d holds are the ones drawn on it, each for its note
C8_Accumulated ==
    \A d \in Displays :
        /\ Cardinality(DOMAIN blocks[d]) = Cardinality(DrawnOn(d))
        /\ Cardinality(DOMAIN notes[d]) = Cardinality(DrawnOn(d))
        /\ Len(surface[d]) = Cardinality(DrawnOn(d))
        /\ \A k \in DrawnOn(d) :
               /\ constructed[k] \in DOMAIN notes[d]
               /\ notes[d][constructed[k]] = createdFor[k].note

\* C8: drawNotes adds one blocks entry, one notes entry and one surface
\* child per note and never removes or overwrites an earlier entry.
C8_DrawNotesAccumulates ==
    /\ C8_Accumulated
    /\ [][/\ C8_Accumulated'
          /\ \A d \in Displays :
               /\ \A k \in DOMAIN blocks[d] :
                      k \in DOMAIN blocks'[d] /\ blocks'[d][k] = blocks[d][k]
               /\ \A k \in DOMAIN notes[d] :
                      k \in DOMAIN notes'[d] /\ notes'[d][k] = notes[d][k]
               /\ SubSeq(surface'[d], 1, Len(surface[d])) = surface[d]]_vars

\* display 1 was rendered twice (a block of display 2 lies between), and the
\* block of the first render was dropped and moved its note
C8_Witness ==
    /\ Len(constructed) = 3
    /\ createdFor[1].display = 1
    /\ createdFor[2].display = 2
    /\ createdFor[3].display = 1
    /\ drops # <<>>
    /\ drops[1].display = 1
    /\ drops[1].src = constructed[1]
    /\ moveCalls[1].note = createdFor[1].note

C10_Keys ==
    /\ \A d \in Displays :
           /\ DOMAIN blocks[d] = DOMAIN notes[d]
           /\ \A k \in DOMAIN blocks[d] : k >= 0 /\ k < Len(constructed)
    /\ \A d1, d2 \in Displays :
           d1 # d2 => DOMAIN blocks[d1] \cap DOMAIN blocks[d2] = {}

\* C10: blocks and notes always have the same keys, every key is an id
\* already issued, two displays share no key, and drag and drop events
\* leave both mappings unchanged.
C10_MappingsConsistent ==
    /\ C10_Keys
    /\ [][/\ C10_Keys'
          /\ (drag' # drag \/ drops' # <<>>)
                => UNCHANGED <<blocks, notes>>]_vars

C10_Witness ==
    /\ DOMAIN blocks[1] # {}
    /\ DOMAIN blocks[2] # {}
    /\ drops # <<>>


=============================================================================
